---- MODULE Spec2Model ----
(***************************************************************************)
(* Model of jump_and_run.py: the Player body, the World of platforms, the  *)
(* axis-separated collision resolver and the main loop.                    *)
(*                                                                         *)
(* Numbers.  The program computes with floats; the model computes with     *)
(* integers in fixed units chosen so that every product the program forms  *)
(* for the frame times of DtSet is an integer:                             *)
(*   time      1/TimeScale second            (dt, Platform.timer)          *)
(*   velocity  1/VelScale pixel per second   (vx, vy)                      *)
(*   position  1/PosScale pixel              (x, y, camera_x)              *)
(* with PosScale = VelScale * TimeScale, so that v * dt is v*dt position   *)
(* units and GRAVITY * dt is 2*dt velocity units.  pygame.Rect holds whole *)
(* pixels; int() truncates toward zero.  The one product that is not exact *)
(* is the camera's smoothing step, which is truncated to a position unit.  *)
(***************************************************************************)
EXTENDS Integers, Sequences, FiniteSets, TLC

\* ------------------------------------------------------------------ units
TimeScale == 3000
VelScale == 3
PosScale == VelScale * TimeScale

\* --------------------------------------------------------------- settings
SCREEN_WIDTH == 980
SCREEN_HEIGHT == 560
FPS == 60
GRAVITY == 2000
PLAYER_SPEED == 280
PLAYER_JUMP_VELOCITY == 750
PLATFORM_MIN_WIDTH == 60
PLATFORM_MAX_WIDTH == 300
PLATFORM_MIN_GAP == 60
PLATFORM_MAX_GAP == 120
PLATFORM_MIN_Y == 120
PLATFORM_MAX_Y == SCREEN_HEIGHT - 60
GEN_AHEAD == SCREEN_WIDTH * 2
CLEANUP_BEHIND == 600
TEMP_PLATFORM_CHANCE == 15
TEMP_PLATFORM_LIFETIME == 5 * TimeScale
\* Platform.__init__: self.timer = 2.0
PLATFORM_TIMER_START == 2 * TimeScale
\* Platform.__init__: h=20
PLATFORM_HEIGHT == 20
\* Player.__init__: self.w, self.h = 36, 52
PLAYER_W == 36
PLAYER_H == 52
\* Player.apply_input: accel = 2000.0
ACCEL == 2000
\* Player.physics: min(self.vy, 2000.0)
MAX_FALL_SPEED == 2000
\* main: Player(120, SCREEN_HEIGHT - 180)
SPAWN_X == 120
SPAWN_Y == SCREEN_HEIGHT - 180
\* resolve_collisions: player.y = SCREEN_HEIGHT + 1000
LATERAL_DEATH_Y == SCREEN_HEIGHT + 1000
\* main: if player.y > SCREEN_HEIGHT + 400
DEATH_Y == SCREEN_HEIGHT + 400
\* World.get_last_y: SCREEN_HEIGHT - 200 for an empty world
EMPTY_LAST_Y == SCREEN_HEIGHT - 200
\* World.generate_until: random.randint(-120, 120)
Y_STEP == 120
\* main: min(1.0, 8.0 * dt)
CAM_RATE == 8

\* ---------------------------------------------------------------- helpers
Min(a, b) == IF a < b THEN a ELSE b
Max(a, b) == IF a > b THEN a ELSE b

\* int(a / b) of Python for b > 0: truncation toward zero.
Trunc(a, b) == IF a >= 0 THEN a \div b ELSE -((-a) \div b)

\* int(v) of a position held in position units, in whole pixels.
IntPx(v) == Trunc(v, PosScale)

\* int(v * dt): velocity times frame time, in whole pixels.
IntStep(v, d) == Trunc(v * d, PosScale)

\* --------------------------------------------------------------- Platform
\* Platform.__init__: geometry in whole pixels (its Rect), the temporary
\* flag, timer = 2.0 and activated = False.
Platform(x, y, w, h, temporary) ==
    [x |-> x, y |-> y, w |-> w, h |-> h, temporary |-> temporary,
     timer |-> PLATFORM_TIMER_START, activated |-> FALSE]

\* pygame.Rect.colliderect of the box (rx, ry, rw, rh) with p.rect: the
\* interiors overlap; boxes that only share an edge do not collide.
CollideRect(rx, ry, rw, rh, p) ==
    /\ rx < p.x + p.w
    /\ rx + rw > p.x
    /\ ry < p.y + p.h
    /\ ry + rh > p.y

\* player.rect.colliderect(p.rect)
Collides(pl, p) == CollideRect(pl.rx, pl.ry, PLAYER_W, PLAYER_H, p)

\* ----------------------------------------------------------------- Player
\* Player.__init__(x, y): x, y in pixels.
Player(x, y) ==
    [x |-> x * PosScale, y |-> y * PosScale, vx |-> 0, vy |-> 0,
     on_ground |-> FALSE, rx |-> x, ry |-> y]

\* Player.apply_input: keys is the set of pressed directions.
TargetVx(keys) ==
    (IF "right" \in keys THEN PLAYER_SPEED * VelScale ELSE 0)
    - (IF "left" \in keys THEN PLAYER_SPEED * VelScale ELSE 0)

\* An apply_input that steps toward the target without stopping at it.
ApplyInputOvershoot(pl, keys, d) ==
    LET target == TargetVx(keys)
        step == (ACCEL * VelScale * d) \div TimeScale
    IN  IF pl.vx < target THEN [pl EXCEPT !.vx = pl.vx + step]
        ELSE IF pl.vx > target THEN [pl EXCEPT !.vx = pl.vx - step]
        ELSE pl

ApplyInput(pl, keys, d) ==
    LET target == TargetVx(keys)
        step == (ACCEL * VelScale * d) \div TimeScale
    IN  IF pl.vx < target THEN [pl EXCEPT !.vx = Min(pl.vx + step, target)]
        ELSE IF pl.vx > target THEN [pl EXCEPT !.vx = Max(pl.vx - step, target)]
        ELSE pl

\* A jump() that does not look at on_ground.
JumpAlways(pl) ==
    [pl EXCEPT !.vy = -(PLAYER_JUMP_VELOCITY * VelScale), !.on_ground = FALSE]

\* Player.jump
Jump(pl) ==
    IF pl.on_ground
    THEN [pl EXCEPT !.vy = -(PLAYER_JUMP_VELOCITY * VelScale), !.on_ground = FALSE]
    ELSE pl

\* A physics step without the clamp of vy.
PhysicsUnclamped(pl, d) ==
    LET vy1 == pl.vy + (GRAVITY * VelScale * d) \div TimeScale
        x1 == pl.x + pl.vx * d
        y1 == pl.y + vy1 * d
    IN  [pl EXCEPT !.vy = vy1, !.x = x1, !.y = y1,
                   !.rx = IntPx(x1), !.ry = IntPx(y1)]

\* Player.physics
Physics(pl, d) ==
    LET vy1 == Min(pl.vy + (GRAVITY * VelScale * d) \div TimeScale,
                   MAX_FALL_SPEED * VelScale)
        x1 == pl.x + pl.vx * d
        y1 == pl.y + vy1 * d
    IN  [pl EXCEPT !.vy = vy1, !.x = x1, !.y = y1,
                   !.rx = IntPx(x1), !.ry = IntPx(y1)]

\* ------------------------------------------------------- resolve_collisions
\* A vertical loop body that snaps the rect but keeps the velocity.
VerticalHitKeepsVy(pl, p) ==
    IF Collides(pl, p)
    THEN LET snapped ==
                 IF pl.vy > 0
                 THEN [pl EXCEPT !.ry = p.y - PLAYER_H, !.on_ground = TRUE]
                 ELSE IF pl.vy < 0
                 THEN [pl EXCEPT !.ry = p.y + p.h]
                 ELSE pl
         IN  [snapped EXCEPT !.y = snapped.ry * PosScale]
    ELSE pl

\* One iteration of the vertical loop: the body of "for p in platforms".
VerticalHit(pl, p) ==
    IF Collides(pl, p)
    THEN LET snapped ==
                 IF pl.vy > 0
                 THEN [pl EXCEPT !.ry = p.y - PLAYER_H, !.on_ground = TRUE]
                 ELSE IF pl.vy < 0
                 THEN [pl EXCEPT !.ry = p.y + p.h]
                 ELSE pl
         IN  [snapped EXCEPT !.vy = 0, !.y = snapped.ry * PosScale]
    ELSE pl

\* A vertical loop that walks the list from its end.
RECURSIVE VerticalLoopBackward(_, _, _)
VerticalLoopBackward(pl, plats, i) ==
    IF i > Len(plats) THEN pl
    ELSE VerticalLoopBackward(VerticalHit(pl, plats[Len(plats) + 1 - i]), plats, i + 1)

\* "for p in platforms" of the vertical pass, from the i-th platform on.
RECURSIVE VerticalLoop(_, _, _)
VerticalLoop(pl, plats, i) ==
    IF i > Len(plats) THEN pl
    ELSE VerticalLoop(VerticalHit(pl, plats[i]), plats, i + 1)

\* A vertical pass that does not clear on_ground first.
VerticalPassKeepsGround(pl, plats, d) ==
    VerticalLoop([pl EXCEPT !.ry = pl.ry + IntStep(pl.vy, d)], plats, 1)

\* "Vertikale Bewegung": displace the rect, clear on_ground, test every
\* platform in list order.
VerticalPass(pl, plats, d) ==
    VerticalLoop([pl EXCEPT !.ry = pl.ry + IntStep(pl.vy, d), !.on_ground = FALSE],
                 plats, 1)

\* The rect after "player.rect.x += int(player.vx * dt)".
HorizontalMove(pl, d) == [pl EXCEPT !.rx = pl.rx + IntStep(pl.vx, d)]

\* Some platform overlaps the rect in the horizontal loop.
LateralHit(pl, plats) == \E i \in 1..Len(plats) : Collides(pl, plats[i])

\* A horizontal pass that treats a platform as a wall: the rect stays and
\* the body stops.
HorizontalPassWall(pl, plats, d) ==
    IF LateralHit(HorizontalMove(pl, d), plats)
    THEN [pl EXCEPT !.vx = 0]
    ELSE HorizontalMove(pl, d)

\* "Horizontale Bewegung": displace the rect; any overlap puts the player
\* under the world.
HorizontalPass(pl, plats, d) ==
    LET moved == HorizontalMove(pl, d)
    IN  IF LateralHit(moved, plats)
        THEN [moved EXCEPT !.y = LATERAL_DEATH_Y * PosScale]
        ELSE moved

ResolveCollisions(pl, plats, d) == HorizontalPass(VerticalPass(pl, plats, d), plats, d)

\* ------------------------------------------------------------------ random
\* The module-level generator of "random": a state that every draw advances.
\* The Mersenne Twister is replaced by a 16-bit linear congruential
\* generator; what is kept is that a draw is a function of the generator's
\* state and lies in the requested range.
RandNext(s) == (s * 25173 + 13849) % 65536

\* random.randint(lo, hi) read off the state s reached by the draw.
RandInt(s, lo, hi) == lo + ((s \div 16) % (hi - lo + 1))

\* random.random() < TEMP_PLATFORM_CHANCE read off the state s.
RandChance(s) == ((s \div 16) % 100) < TEMP_PLATFORM_CHANCE

\* ------------------------------------------------------------------- World
\* World.__init__: the ground platform and the frontier at its right edge.
GROUND_X == -1000
GROUND_W == 1500
GROUND_H == 80
Ground == Platform(GROUND_X, SCREEN_HEIGHT - 40, GROUND_W, GROUND_H, FALSE)

\* World.get_last_y
GetLastY(plats) == IF Len(plats) > 0 THEN plats[Len(plats)].y ELSE EMPTY_LAST_Y

\* An iteration that sets the frontier to the new platform's left edge.
GenerateOneNoWidth(w) ==
    LET s1 == RandNext(w.rng)
        s2 == RandNext(s1)
        s3 == RandNext(s2)
        s4 == RandNext(s3)
        width == RandInt(s1, PLATFORM_MIN_WIDTH, PLATFORM_MAX_WIDTH)
        gap == RandInt(s2, PLATFORM_MIN_GAP, PLATFORM_MAX_GAP)
        new_y == Max(PLATFORM_MIN_Y,
                     Min(PLATFORM_MAX_Y, GetLastY(w.platforms) + RandInt(s3, -Y_STEP, Y_STEP)))
        p == Platform(w.max_x + gap, new_y, width, PLATFORM_HEIGHT, RandChance(s4))
    IN  [platforms |-> Append(w.platforms, p), max_x |-> p.x, rng |-> s4]

\* An iteration that puts the new platform at the frontier, without the gap.
GenerateOneNoGap(w) ==
    LET s1 == RandNext(w.rng)
        s2 == RandNext(s1)
        s3 == RandNext(s2)
        s4 == RandNext(s3)
        width == RandInt(s1, PLATFORM_MIN_WIDTH, PLATFORM_MAX_WIDTH)
        new_y == Max(PLATFORM_MIN_Y,
                     Min(PLATFORM_MAX_Y, GetLastY(w.platforms) + RandInt(s3, -Y_STEP, Y_STEP)))
        p == Platform(w.max_x, new_y, width, PLATFORM_HEIGHT, RandChance(s4))
    IN  [platforms |-> Append(w.platforms, p), max_x |-> p.x + p.w, rng |-> s4]

\* One iteration of the loop of World.generate_until on w = [platforms,
\* max_x, rng]: four draws in program order, one platform appended.
GenerateOne(w) ==
    LET s1 == RandNext(w.rng)
        s2 == RandNext(s1)
        s3 == RandNext(s2)
        s4 == RandNext(s3)
        width == RandInt(s1, PLATFORM_MIN_WIDTH, PLATFORM_MAX_WIDTH)
        gap == RandInt(s2, PLATFORM_MIN_GAP, PLATFORM_MAX_GAP)
        new_y == Max(PLATFORM_MIN_Y,
                     Min(PLATFORM_MAX_Y, GetLastY(w.platforms) + RandInt(s3, -Y_STEP, Y_STEP)))
        p == Platform(w.max_x + gap, new_y, width, PLATFORM_HEIGHT, RandChance(s4))
    IN  [platforms |-> Append(w.platforms, p), max_x |-> p.x + p.w, rng |-> s4]

\* A loop that stops as soon as the widest gap would reach the limit.
RECURSIVE GenerateUntilShort(_, _)
GenerateUntilShort(w, limit_x) ==
    IF (w.max_x + PLATFORM_MAX_GAP) * PosScale < limit_x
    THEN GenerateUntilShort(GenerateOne(w), limit_x)
    ELSE w

\* World.generate_until(limit_x), limit_x in position units.
RECURSIVE GenerateUntil(_, _)
GenerateUntil(w, limit_x) ==
    IF w.max_x * PosScale < limit_x
    THEN GenerateUntil(GenerateOne(w), limit_x)
    ELSE w

\* An update loop that also activates the platform the body stands on.
AgeOnTouch(p, d, pl) ==
    IF p.temporary
    THEN LET on == /\ pl.on_ground
                   /\ pl.ry + PLAYER_H = p.y
                   /\ pl.rx < p.x + p.w
                   /\ pl.rx + PLAYER_W > p.x
             a == [p EXCEPT !.activated = p.activated \/ Collides(pl, p) \/ on]
         IN  IF a.activated THEN [a EXCEPT !.timer = a.timer + d] ELSE a
    ELSE p

\* World.update: the loop over the platforms.
Age(p, d, pl) ==
    IF p.temporary
    THEN LET a == [p EXCEPT !.activated = p.activated \/ Collides(pl, p)]
         IN  IF a.activated THEN [a EXCEPT !.timer = a.timer + d] ELSE a
    ELSE p

\* An expiry test that needs the timer to pass the lifetime.
ExpiredLate(p) == p.temporary /\ p.activated /\ p.timer > TEMP_PLATFORM_LIFETIME

\* World.update: the filter that drops expired temporary platforms.
Expired(p) == p.temporary /\ p.activated /\ p.timer >= TEMP_PLATFORM_LIFETIME

Update(plats, d, pl) ==
    SelectSeq([i \in 1..Len(plats) |-> Age(plats[i], d, pl)],
              LAMBDA p : ~Expired(p))

\* A filter that also keeps a platform whose right edge is on the horizon.
KeptInclusive(p, cam_x) == (p.x + p.w) * PosScale >= cam_x - CLEANUP_BEHIND * PosScale

\* World.cleanup(cam_x), cam_x in position units.
Kept(p, cam_x) == (p.x + p.w) * PosScale > cam_x - CLEANUP_BEHIND * PosScale

Cleanup(plats, cam_x) == SelectSeq(plats, LAMBDA p : Kept(p, cam_x))

\* History of World.update: for every platform that is activated once the
\* loop of update(d, pl) has run, the frame time summed over the update
\* calls since the one that activated it (that call included).  A platform
\* is named by its x, which no two platforms of a world share.
Elapse(el, plats, d, pl) ==
    LET active == {plats[i].x : i \in {j \in 1..Len(plats) : Age(plats[j], d, pl).activated}}
    IN  [k \in active |-> (IF k \in DOMAIN el THEN el[k] ELSE 0) + d]

\* --------------------------------------------------------------- main loop
\* main: "camera_x += (target_cam - camera_x) * min(1.0, 8.0 * dt)" with
\* target_cam = player.x - SCREEN_WIDTH * 0.3; min(1, 8 dt) is written as
\* min(TimeScale / 8, dt) / (TimeScale / 8).
CameraFollow(cam, x, d) ==
    LET target_cam == x - ((SCREEN_WIDTH * 3) \div 10) * PosScale
        unit == TimeScale \div CAM_RATE
    IN  cam + Trunc((target_cam - cam) * Min(unit, d), unit)

\* main: score = int(player.x // 10)
SCORE_STEP == 10
\* A score that truncates toward zero: int(player.x / 10).
ScoreTruncated(x) == Trunc(x, SCORE_STEP * PosScale)

ScoreOf(x) == x \div (SCORE_STEP * PosScale)

\* main: if player.y > SCREEN_HEIGHT + 400
Dead(pl) == pl.y > DEATH_Y * PosScale

\* main: the player after jump / apply_input / physics / resolve_collisions.
Pressed(ks) == "jump" \in ks
Jumped(pl, ks) == IF Pressed(ks) THEN Jump(pl) ELSE pl
Moved(pl, plats, ks, d) ==
    ResolveCollisions(Physics(ApplyInput(Jumped(pl, ks), ks, d), d), plats, d)

\* jump() was called and changed the body.
JumpFires(pl, ks) == Jumped(pl, ks) # pl

\* ------------------------------------------------------------------ bounds
\* Frames the loop is followed for under Spec (any input every frame).
MaxFrames == 4
\* Frames the loop is followed for under SpecRun (a player heading right).
MaxRunFrames == 22
\* Seeds of the random generator.  With seed 1 the first two generated
\* platforms are temporary; under SpecRun the first one is temporary with
\* 1, 13, 18 and 23, the second with 8, 11, 14 and 24.
Seeds == {1}
RunSeeds == 1..24
\* Frame times: clock.tick returns 0 on its first call, 1/FPS second in a
\* steady run, a tenth or half a second when the process is held up.
DT_FRAME == TimeScale \div FPS
DT_SLOW == TimeScale \div 10
DT_STALL == TimeScale \div 2
DtSet == {0, DT_FRAME, DT_SLOW, DT_STALL}
\* Pressed keys, by what the loop reads of them.
KeySets == {{}, {"left"}, {"right"}, {"jump"}}
RunKeySets == {{"right"}, {"right", "jump"}}

VARIABLES
    player,     \* main: player (x, y, vx, vy, on_ground, rect.x, rect.y)
    platforms,  \* world.platforms
    max_x,      \* world.max_x
    rng,        \* state of the module "random"
    camera_x,   \* main: camera_x
    score,      \* main: score
    highscore,  \* main: highscore
    in_menu,    \* main: in_menu
    running,    \* main: running
    dt,         \* main: dt of the current frame
    keys,       \* key state as of the frame's pygame.event.get()
    pc,         \* position in the loop body: "events", "step" or "done";
                \* under SpecUnit the operation called last
    frames,     \* frames started so far
    landed,     \* history: the body has landed since it was made or last jumped
    elapsed     \* history: frame time since activation, per activated platform

vars == <<player, platforms, max_x, rng, camera_x, score, highscore, in_menu,
          running, dt, keys, pc, frames, landed, elapsed>>

\* main, lines 165-172, and the seed "random" starts from.
InitFrom(seeds) ==
    /\ player = Player(SPAWN_X, SPAWN_Y)
    /\ platforms = <<Ground>>
    /\ max_x = Ground.x + Ground.w
    /\ rng \in seeds
    /\ camera_x = 0
    /\ score = 0
    /\ highscore = 0
    /\ in_menu = FALSE
    /\ running = TRUE
    /\ dt = 0
    /\ keys = {}
    /\ pc = "events"
    /\ frames = 0
    /\ landed = FALSE
    /\ elapsed = [k \in {} |-> 0]

Init == InitFrom(Seeds)

\* Top of the loop body: clock.tick and the event queue read; n bounds the
\* frames followed.
FrameStart(d, ks, n) ==
    /\ pc = "events"
    /\ running
    /\ frames < n
    /\ dt' = d
    /\ keys' = ks
    /\ frames' = frames + 1
    /\ pc' = "step"

\* No event the loop reacts to.  (The event list of a frame is taken to
\* hold at most one event the loop reacts to.)
NoEvent(d, ks, n) ==
    /\ FrameStart(d, ks, n)
    /\ UNCHANGED <<player, platforms, max_x, rng, camera_x, score, highscore,
                   in_menu, running, landed, elapsed>>

\* pygame.QUIT, or KEYDOWN of K_ESCAPE.
Quit(d, ks, n) ==
    /\ FrameStart(d, ks, n)
    /\ running' = FALSE
    /\ UNCHANGED <<player, platforms, max_x, rng, camera_x, score, highscore,
                   in_menu, landed, elapsed>>

\* A K_SPACE handler that starts a new round whether in the menu or not.
SpaceDownAnywhere(d, ks, n) ==
    /\ FrameStart(d, ks, n)
    /\ in_menu' = FALSE
    /\ player' = Player(SPAWN_X, SPAWN_Y)
    /\ platforms' = <<Ground>>
    /\ max_x' = Ground.x + Ground.w
    /\ camera_x' = 0
    /\ score' = 0
    /\ landed' = FALSE
    /\ elapsed' = [k \in {} |-> 0]
    /\ UNCHANGED <<rng, highscore, running>>

\* KEYDOWN of K_SPACE: a new round when in the menu, nothing otherwise.
SpaceDown(d, ks, n) ==
    /\ FrameStart(d, ks, n)
    /\ IF in_menu
       THEN /\ in_menu' = FALSE
            /\ player' = Player(SPAWN_X, SPAWN_Y)
            /\ platforms' = <<Ground>>
            /\ max_x' = Ground.x + Ground.w
            /\ camera_x' = 0
            /\ score' = 0
            /\ landed' = FALSE
            /\ elapsed' = [k \in {} |-> 0]
       ELSE UNCHANGED <<in_menu, player, platforms, max_x, camera_x, score, landed,
                        elapsed>>
    /\ UNCHANGED <<rng, highscore, running>>

\* The rest of the loop body, then the loop test.  dt and keys are bound
\* again at the top of the next frame before anything reads them: the model
\* forgets them here.
LoopBack ==
    /\ pc' = IF running THEN "events" ELSE "done"
    /\ dt' = 0
    /\ keys' = {}

\* A latch that keeps the last round's score.
LatchLast(hs, sc) == sc

\* main: "highscore = max(highscore, score)"
Latch(hs, sc) == Max(hs, sc)

\* "if not in_menu": one tick of the game.
Play ==
    /\ pc = "step"
    /\ ~in_menu
    /\ LET pl == Moved(player, platforms, keys, dt)
           w == GenerateUntil([platforms |-> platforms, max_x |-> max_x, rng |-> rng],
                              camera_x + GEN_AHEAD * PosScale)
           sc == ScoreOf(pl.x)
       IN  /\ player' = pl
           /\ platforms' = Cleanup(Update(w.platforms, dt, pl), camera_x)
           /\ max_x' = w.max_x
           /\ rng' = w.rng
           /\ camera_x' = CameraFollow(camera_x, pl.x, dt)
           /\ score' = sc
           /\ elapsed' = Elapse(elapsed, w.platforms, dt, pl)
           /\ landed' = IF pl.on_ground THEN TRUE
                        ELSE IF JumpFires(player, keys) THEN FALSE
                        ELSE landed
           /\ IF Dead(pl)
              THEN highscore' = Latch(highscore, sc) /\ in_menu' = TRUE
              ELSE UNCHANGED <<highscore, in_menu>>
    /\ LoopBack
    /\ UNCHANGED <<running, frames>>

\* "else": the menu is drawn.
Menu ==
    /\ pc = "step"
    /\ in_menu
    /\ LoopBack
    /\ UNCHANGED <<player, platforms, max_x, rng, camera_x, score, highscore,
                   in_menu, running, frames, landed, elapsed>>

\* The loop under any input of DtSet and KeySets.
Next ==
    \/ \E d \in DtSet, ks \in KeySets : NoEvent(d, ks, MaxFrames)
    \/ \E d \in DtSet, ks \in KeySets : Quit(d, ks, MaxFrames)
    \/ \E d \in DtSet, ks \in KeySets : SpaceDown(d, ks, MaxFrames)
    \/ Play
    \/ Menu

Spec == Init /\ [][Next]_vars

\* The loop with a player who heads right at a tenth of a second per frame
\* and never quits.
NextRun ==
    \/ \E ks \in RunKeySets : NoEvent(DT_SLOW, ks, MaxRunFrames)
    \/ Play
    \/ Menu

SpecRun == InitFrom(RunSeeds) /\ [][NextRun]_vars

\* ------------------------------------------------------------- unit harness
\* The operations of World and resolve_collisions called one at a time, in
\* any order, on a world and a body a test sets up: pc names the call made
\* last, dt its frame time and camera_x the camera position it was made
\* with (0 when the call takes none), frames counts the calls.
MaxCalls == 5
UnitDts == {0, DT_FRAME, DT_STALL, 2 * TimeScale}
\* generate_until limits: one platform past the ground, or a few.
UnitLimits == {600 * PosScale, 1000 * PosScale}
\* cleanup camera positions: nothing behind the horizon; the ground behind
\* it and the right edge of seed 1's first platform (683) on it.
UnitCams == {0, 1283 * PosScale}
\* Where a test puts the body: the spawn point, or over, in and under the
\* first platform that seed 1 generates (x 595..683, y 457..477).
PlaceXs == {SPAWN_X, 570}
PlaceYs == {SPAWN_Y, 440, 460, 480}
PlaceVys == {-(PLAYER_JUMP_VELOCITY * VelScale), 0, 400 * VelScale}

InitUnit == InitFrom(Seeds) /\ pc = "events"

Called(name, d, cam) ==
    /\ frames < MaxCalls
    /\ frames' = frames + 1
    /\ pc' = name
    /\ dt' = d
    /\ camera_x' = cam
    /\ UNCHANGED <<score, highscore, in_menu, running, keys, landed>>

\* world.generate_until(camera_x + GEN_AHEAD), as main calls it, with the
\* camera where the limit is limit_x.
UGenerate(limit_x) ==
    /\ Called("generate", 0, limit_x - GEN_AHEAD * PosScale)
    /\ LET w == GenerateUntil([platforms |-> platforms, max_x |-> max_x, rng |-> rng],
                              camera_x' + GEN_AHEAD * PosScale)
       IN  platforms' = w.platforms /\ max_x' = w.max_x /\ rng' = w.rng
    /\ UNCHANGED <<player, elapsed>>

\* world.update(d, player)
UUpdate(d) ==
    /\ Called("update", d, 0)
    /\ platforms' = Update(platforms, d, player)
    /\ elapsed' = Elapse(elapsed, platforms, d, player)
    /\ UNCHANGED <<player, max_x, rng>>

\* world.cleanup(camera_x) with the camera at cam_x
UCleanup(cam_x) ==
    /\ Called("cleanup", 0, cam_x)
    /\ platforms' = Cleanup(platforms, camera_x')
    /\ UNCHANGED <<player, max_x, rng, elapsed>>

\* player = Player(x, y); player.vy = vy
UPlace(x, y, vy) ==
    /\ Called("place", 0, 0)
    /\ player' = [Player(x, y) EXCEPT !.vy = vy]
    /\ UNCHANGED <<platforms, max_x, rng, elapsed>>

\* resolve_collisions(player, world.platforms, d)
UResolve(d) ==
    /\ Called("resolve", d, 0)
    /\ player' = ResolveCollisions(player, platforms, d)
    /\ UNCHANGED <<platforms, max_x, rng, elapsed>>

NextUnit ==
    \/ \E l \in UnitLimits : UGenerate(l)
    \/ \E d \in UnitDts : UUpdate(d)
    \/ \E c \in UnitCams : UCleanup(c)
    \/ \E x \in PlaceXs, y \in PlaceYs, vy \in PlaceVys : UPlace(x, y, vy)
    \/ \E d \in UnitDts : UResolve(d)

SpecUnit == InitUnit /\ [][NextUnit]_vars

\* generate_until alone, called again and again on a fresh World, under
\* many seeds of the generator.
GenSeeds == 1..40
GenLimits == {600 * PosScale, 1000 * PosScale, GEN_AHEAD * PosScale, 3000 * PosScale}

NextGen == \E l \in GenLimits : UGenerate(l)

SpecGen == InitFrom(GenSeeds) /\ [][NextGen]_vars

\* resolve_collisions called on a platform list a caller hands it: the
\* ground and two platforms stacked 10 pixels apart, in either order, so that
\* a body box (52 high) can overlap both.  World never builds such a list
\* (its platforms are 60 or more apart in x and the body is 36 wide).
StackA == Platform(560, 470, 100, PLATFORM_HEIGHT, FALSE)
StackB == Platform(560, 480, 100, PLATFORM_HEIGHT, FALSE)
Stacks == {<<Ground, StackA, StackB>>, <<Ground, StackB, StackA>>}

InitResolve ==
    /\ player = Player(SPAWN_X, SPAWN_Y)
    /\ platforms \in Stacks
    /\ max_x = StackA.x + StackA.w
    /\ rng \in Seeds
    /\ camera_x = 0
    /\ score = 0
    /\ highscore = 0
    /\ in_menu = FALSE
    /\ running = TRUE
    /\ dt = 0
    /\ keys = {}
    /\ pc = "events"
    /\ frames = 0
    /\ landed = FALSE
    /\ elapsed = [k \in {} |-> 0]

NextResolve ==
    \/ \E x \in PlaceXs, y \in PlaceYs, vy \in PlaceVys : UPlace(x, y, vy)
    \/ \E d \in UnitDts : UResolve(d)

SpecResolve == InitResolve /\ [][NextResolve]_vars

\* The methods of Player called one at a time, in any order, on the body
\* main makes: pc names the call made last, dt and keys its arguments.
MaxBodyCalls == 4
BodyDts == {0, DT_FRAME, DT_STALL, 2 * TimeScale}
\* Direction keys held: none, one, or both.
BodyKeySets == SUBSET {"left", "right"}

BodyCalled(name, d, ks) ==
    /\ frames < MaxBodyCalls
    /\ frames' = frames + 1
    /\ pc' = name
    /\ dt' = d
    /\ keys' = ks
    /\ UNCHANGED <<platforms, max_x, rng, camera_x, score, highscore, in_menu,
                   running, landed, elapsed>>

\* player.apply_input(keys, d)
UApplyInput(ks, d) ==
    /\ BodyCalled("apply_input", d, ks)
    /\ player' = ApplyInput(player, ks, d)

\* player.physics(d)
UPhysics(d) ==
    /\ BodyCalled("physics", d, {})
    /\ player' = Physics(player, d)

NextBody ==
    \/ \E ks \in BodyKeySets, d \in BodyDts : UApplyInput(ks, d)
    \/ \E d \in BodyDts : UPhysics(d)

SpecBody == InitFrom(Seeds) /\ [][NextBody]_vars

\* ------------------------------------------------------------------ claims
\* The body after the vertical pass of the frame whose step is next.
AfterVertical ==
    VerticalPass(Physics(ApplyInput(Jumped(player, keys), keys, dt), dt), platforms, dt)

\* The body stands on p: grounded, its bottom edge on p's top edge, over p.
StandsOn(pl, p) ==
    /\ pl.on_ground
    /\ pl.ry + PLAYER_H = p.y
    /\ pl.rx < p.x + p.w
    /\ pl.rx + PLAYER_W > p.x

\* A platform at x = k is in plats; p itself is in plats.
Present(k, plats) == \E i \in 1..Len(plats) : plats[i].x = k
InSeq(p, plats) == \E i \in 1..Len(plats) : plats[i] = p

\* C1: when a frame ends with the round alive and the body landed on a
\* temporary platform, World.update has activated that platform (the claim
\* as made).
C1_LandingActivates ==
    \A i \in 1..Len(platforms) :
        (pc = "events" /\ ~in_menu /\ platforms[i].temporary
            /\ StandsOn(player, platforms[i]))
        => platforms[i].activated

\* C2: a body at rest on a platform is grounded with vy = 0 again after a
\* frame with no key pressed and dt = 1/60 (the claim as made).
C2_RestStaysGrounded ==
    [][(/\ pc = "step" /\ ~in_menu /\ keys = {} /\ dt = DT_FRAME
        /\ player.vx = 0 /\ player.vy = 0
        /\ \E i \in 1..Len(platforms) : StandsOn(player, platforms[i]))
       => (player'.on_ground /\ player'.vy = 0)]_vars

\* C3: a frame whose horizontal pass finds the displaced rect overlapping a
\* platform ends with player.y forced to SCREEN_HEIGHT + 1000, which is past
\* the death threshold, with x and vx as the vertical pass left them, and
\* with the round flagged dead.
C3_LateralFatal ==
    [][(/\ pc = "step" /\ ~in_menu
        /\ LateralHit(HorizontalMove(AfterVertical, dt), platforms))
       => (/\ player'.y = (SCREEN_HEIGHT + 1000) * PosScale
           /\ player'.y > (SCREEN_HEIGHT + 400) * PosScale
           /\ player'.x = AfterVertical.x
           /\ player'.vx = AfterVertical.vx
           /\ in_menu')]_vars

\* C3 witness: a frame ended dead with the rect inside a platform and
\* player.y at the forced value.
C3_Witness ==
    /\ pc = "events" /\ in_menu
    /\ player.y = LATERAL_DEATH_Y * PosScale
    /\ LateralHit(player, platforms)

\* C4: an update call keeps every non-temporary platform; keeps every
\* temporary platform that is neither activated nor overlapped, its timer at
\* the initial value; and of a temporary platform that is activated or
\* overlapped it removes the platform exactly when timer + dt reaches the
\* lifetime, and otherwise keeps it activated with timer + dt.
C4_UpdateLifecycle ==
    [][pc' = "update" =>
        \A i \in 1..Len(platforms) :
            LET p == platforms[i]
                touched == p.activated \/ Collides(player, p)
            IN  /\ ~p.temporary => InSeq(p, platforms')
                /\ (p.temporary /\ ~touched) =>
                       (InSeq(p, platforms') /\ p.timer = 2 * TimeScale)
                /\ (p.temporary /\ touched) =>
                       IF p.timer + dt' >= 5 * TimeScale
                       THEN ~Present(p.x, platforms')
                       ELSE InSeq([p EXCEPT !.activated = TRUE, !.timer = p.timer + dt'],
                                  platforms')]_vars

\* C4 witness: an update call has removed a platform it had aged, and has
\* kept a temporary platform nobody touched.
C4_Witness ==
    /\ pc = "update"
    /\ \E k \in DOMAIN elapsed : ~Present(k, platforms)
    /\ \E i \in 1..Len(platforms) : platforms[i].temporary /\ ~platforms[i].activated

\* C5: after an update call, a platform whose frame times since activation
\* sum to less than 5.0 seconds is still in world.platforms (the claim as
\* made).
C5_SurvivesLifetime ==
    pc = "update" =>
        \A k \in DOMAIN elapsed :
            elapsed[k] < 5 * TimeScale => Present(k, platforms)

\* C6: when a frame's step calls jump(): a grounded body gets
\* vy = -PLAYER_JUMP_VELOCITY and on_ground = false, a body in the air is
\* left as it is, and jump() changes the body only if the body has landed
\* since it was made or since the last jump that changed it.
C6_NoDoubleJump ==
    (pc = "step" /\ ~in_menu /\ "jump" \in keys) =>
        LET j == Jumped(player, keys)
        IN  /\ player.on_ground =>
                   j = [player EXCEPT !.vy = -(750 * VelScale), !.on_ground = FALSE]
            /\ ~player.on_ground => j = player
            /\ j # player => landed

\* C6 witness: a frame ended with the body rising from a jump.
C6_Witness == pc = "events" /\ ~in_menu /\ player.vy < 0 /\ ~landed

\* C7: resolve_collisions on a body whose vertically displaced rect overlaps
\* exactly one platform ends, if vy > 0, with the rect's bottom on the
\* platform's top, on_ground = true and vy = 0 and, if vy < 0, with the
\* rect's top on the platform's bottom, vy = 0 and on_ground = false; with
\* no platform overlapped it ends with on_ground = false and vy unchanged.
C7_VerticalOutcome ==
    [][pc' = "resolve" =>
        LET moved == [player EXCEPT !.ry = player.ry + IntStep(player.vy, dt')]
            hits == {i \in 1..Len(platforms) : Collides(moved, platforms[i])}
        IN  /\ hits = {} => (~player'.on_ground /\ player'.vy = player.vy)
            /\ Cardinality(hits) = 1 =>
                   LET p == platforms[CHOOSE i \in hits : TRUE]
                   IN  /\ player.vy > 0 =>
                              /\ player'.ry + PLAYER_H = p.y
                              /\ player'.on_ground
                              /\ player'.vy = 0
                       /\ player.vy < 0 =>
                              /\ player'.ry = p.y + p.h
                              /\ ~player'.on_ground
                              /\ player'.vy = 0]_vars

\* C7 witness: resolve_collisions has stopped a rising body under a platform.
C7_Witness ==
    /\ pc = "resolve" /\ player.vy = 0 /\ ~player.on_ground
    /\ \E i \in 1..Len(platforms) :
           /\ player.ry = platforms[i].y + platforms[i].h
           /\ player.rx < platforms[i].x + platforms[i].w
           /\ player.rx + PLAYER_W > platforms[i].x

\* C8: the step of a live frame ends with score = floor(player.x / 10), the
\* frame that detects death included, and no step changes the score while
\* the round stays dead.
C8_ScoreFloor ==
    [][/\ (pc = "step" /\ ~in_menu) =>
              /\ score' * (10 * PosScale) <= player'.x
              /\ player'.x < (score' + 1) * (10 * PosScale)
       /\ (in_menu /\ in_menu') => score' = score]_vars

\* C8 witness: a round ended with the body left of x = 0 and not on a
\* multiple of 10.
C8_Witness ==
    /\ pc = "events" /\ in_menu
    /\ player.x < 0
    /\ player.x % (10 * PosScale) # 0

\* C9: while the round stays dead no step changes the body, the platforms,
\* the frontier, the camera or the score; a step that ends the dead state
\* leaves a new body at the spawn point, a world of the ground platform
\* alone, camera_x = 0 and score = 0; and event handling in a live round
\* changes none of them.
C9_DeadFrozen ==
    [][/\ (in_menu /\ in_menu') =>
              UNCHANGED <<player, platforms, max_x, camera_x, score>>
       /\ (in_menu /\ ~in_menu') =>
              /\ player' = Player(SPAWN_X, SPAWN_Y)
              /\ platforms' = <<Ground>>
              /\ max_x' = GROUND_X + GROUND_W
              /\ camera_x' = 0
              /\ score' = 0
       /\ (~in_menu /\ pc = "events") =>
              UNCHANGED <<player, platforms, max_x, camera_x, score, in_menu>>]_vars

\* C9 witness: a reset has been honoured after a round that had moved on.
C9_Witness ==
    /\ pc = "step" /\ ~in_menu /\ frames >= 3
    /\ player = Player(SPAWN_X, SPAWN_Y)
    /\ platforms = <<Ground>>
    /\ score = 0
    /\ highscore > 0

\* C10: no step lowers highscore, event handling (a reset included) leaves
\* it unchanged, and the step that detects death ends with highscore >= the
\* round's score.
C10_HighscoreLatched ==
    [][/\ highscore' >= highscore
       /\ pc = "events" => highscore' = highscore
       /\ (~in_menu /\ in_menu') => highscore' >= score']_vars

\* C10 witness: a second round ended below the highscore of the first.
C10_Witness == in_menu /\ highscore > 0 /\ score < highscore /\ frames >= 4

\* C11: once a tick of a live round has run, the frontier is at least
\* GEN_AHEAD ahead of the camera, at the end of the tick (after the camera
\* has followed the player) as well (the claim as made).
C11_FrontierAhead ==
    (pc = "events" /\ ~in_menu /\ frames >= 1)
    => max_x * PosScale >= camera_x + GEN_AHEAD * PosScale

\* The platforms are strictly ordered by x in list order.
XOrdered(plats) == \A i \in 1..(Len(plats) - 1) : plats[i].x < plats[i + 1].x

\* C12: after any sequence of generate_until calls on a fresh World the
\* platforms are strictly ordered by x in list order and max_x is the right
\* edge of the platform with the greatest x.
C12_GenerateOrdered ==
    /\ XOrdered(platforms)
    /\ Len(platforms) >= 1
    /\ LET r == CHOOSE i \in 1..Len(platforms) :
                    \A j \in 1..Len(platforms) : platforms[j].x <= platforms[i].x
       IN  max_x = platforms[r].x + platforms[r].w

\* C12 witness: a second or later generate_until call has left a world of
\* the ground and at least five generated platforms.
C12_Witness == pc = "generate" /\ frames >= 2 /\ Len(platforms) >= 6

\* C13: after any interleaving of generate_until, update and cleanup the
\* platforms are strictly ordered by x in list order, and every platform
\* begins at least PLATFORM_MIN_GAP right of the right edge of the platform
\* before it in the list.
C13_GapsKept ==
    /\ XOrdered(platforms)
    /\ \A i \in 1..(Len(platforms) - 1) :
           platforms[i + 1].x >= platforms[i].x + platforms[i].w + 60

\* C13 witness: generate_until has made a world, update has removed an
\* expired platform from its middle, cleanup has removed the ground, and
\* two or more platforms are left.
C13_Witness ==
    /\ pc = "cleanup"
    /\ \E k \in DOMAIN elapsed :
           elapsed[k] >= TEMP_PLATFORM_LIFETIME - PLATFORM_TIMER_START /\ ~Present(k, platforms)
    /\ ~Present(GROUND_X, platforms)
    /\ Len(platforms) >= 2

\* C14: a cleanup call with the camera at camera_x' leaves exactly the
\* platforms whose right edge is greater than camera_x' - CLEANUP_BEHIND, in
\* the order they had, and a second cleanup with the same camera would
\* change nothing.
C14_CleanupExact ==
    [][pc' = "cleanup" =>
        LET horizon == camera_x' - 600 * PosScale
            keep == {i \in 1..Len(platforms) :
                         (platforms[i].x + platforms[i].w) * PosScale > horizon}
            nth(j) == CHOOSE i \in keep : Cardinality({k \in keep : k < i}) = j - 1
        IN  /\ Len(platforms') = Cardinality(keep)
            /\ \A j \in 1..Len(platforms') : platforms'[j] = platforms[nth(j)]
            /\ Cleanup(platforms', camera_x') = platforms']_vars

\* C14 witness: a cleanup call with the horizon past the ground has removed
\* the ground and kept two or more platforms beyond the horizon.
C14_Witness ==
    /\ pc = "cleanup"
    /\ camera_x > (GROUND_X + GROUND_W + CLEANUP_BEHIND) * PosScale
    /\ ~Present(GROUND_X, platforms)
    /\ Len(platforms) >= 2

\* C15: vy is at most the maximum fall speed (2000) after Player.physics,
\* whatever dt and the body before the call, and at the end of every tick.
C15_FallSpeedCapped ==
    [][(pc' = "physics" \/ (pc = "step" /\ ~in_menu))
       => player'.vy <= 2000 * VelScale]_vars

\* C15 witness: a physics call whose gravity step alone exceeds the maximum
\* fall speed has left vy at the maximum.
C15_Witness ==
    /\ pc = "physics"
    /\ dt * GRAVITY > MAX_FALL_SPEED * TimeScale
    /\ player.vy = MAX_FALL_SPEED * VelScale

\* |a|
Abs(a) == IF a < 0 THEN -a ELSE a

\* C16: apply_input aims at -PLAYER_SPEED, 0 or +PLAYER_SPEED (0 when
\* neither or both directions are pressed), and leaves vx between vx before
\* the call and the target (inclusive), changed by at most accel * dt.
C16_NoOvershoot ==
    [][pc' = "apply_input" =>
        LET l == "left" \in keys'
            r == "right" \in keys'
            target == IF l = r THEN 0 ELSE IF r THEN 280 * VelScale ELSE -(280 * VelScale)
        IN  /\ TargetVx(keys') = target
            /\ Min(player.vx, target) <= player'.vx
            /\ player'.vx <= Max(player.vx, target)
            /\ Abs(player'.vx - player.vx) * TimeScale <= 2000 * VelScale * dt']_vars

\* C16 witness: with both directions pressed a body moving right has slowed
\* down without reaching 0.
C16_Witness ==
    /\ pc = "apply_input"
    /\ keys = {"left", "right"}
    /\ dt > 0
    /\ player.vx > 0
    /\ player.vx < PLAYER_SPEED * VelScale

\* The platforms the body's rect overlaps once resolve_collisions(player,
\* platforms, d) has displaced it vertically, by position in the list.
VerticalHits(pl, plats, d) ==
    {i \in 1..Len(plats) : Collides([pl EXCEPT !.ry = pl.ry + IntStep(pl.vy, d)], plats[i])}

\* The rect of pl is where a vertical hit of a body moving at vy puts it
\* against p.
SnappedTo(pl, vy, p) ==
    /\ vy > 0 => pl.ry + PLAYER_H = p.y
    /\ vy < 0 => pl.ry = p.y + p.h

BeforeResolve == Physics(ApplyInput(Jumped(player, keys), keys, dt), dt)

\* C19: resolve_collisions, and so every tick, ends with vy = 0 if it ends
\* with on_ground = true, and it ends with on_ground = true only if its
\* vertical pass found the displaced rect overlapping a platform while
\* vy > 0.
C19_GroundedMeansLanded ==
    [][/\ (pc = "step" /\ ~in_menu /\ player'.on_ground) =>
              /\ player'.vy = 0
              /\ BeforeResolve.vy > 0
              /\ VerticalHits(BeforeResolve, platforms, dt) # {}
       /\ (pc' = "resolve" /\ player'.on_ground) =>
              /\ player'.vy = 0
              /\ player.vy > 0
              /\ VerticalHits(player, platforms, dt') # {}]_vars

\* C19 witness: a tick that began with the body grounded and at rest has
\* ended with the body grounded again.
C19_Witness ==
    /\ pc = "events" /\ ~in_menu
    /\ player.on_ground /\ player.vy = 0
    /\ landed
    /\ frames >= 3

\* C20: a generate_until call returns, with max_x >= its limit, having
\* appended nothing if max_x had reached the limit already, and having
\* advanced max_x by at least PLATFORM_MIN_GAP + PLATFORM_MIN_WIDTH for every
\* platform it appended; and no call of generate_until, update or cleanup
\* lowers max_x.
C20_FrontierAdvances ==
    [][/\ pc' \in {"generate", "update", "cleanup"} => max_x' >= max_x
       /\ pc' = "generate" =>
              LET limit_x == camera_x' + GEN_AHEAD * PosScale
                  appended == Len(platforms') - Len(platforms)
              IN  /\ max_x' * PosScale >= limit_x
                  /\ max_x * PosScale >= limit_x =>
                         (platforms' = platforms /\ max_x' = max_x)
                  /\ appended >= 0
                  /\ max_x' - max_x >= appended * (60 + 60)]_vars

\* C20 witness: cleanup has removed every platform, the rightmost one
\* included, from a world generate_until had extended, and max_x is still
\* where generate_until left it.
C20_Witness ==
    /\ pc = "cleanup"
    /\ platforms = <<>>
    /\ max_x > GROUND_X + GROUND_W
====
